---- MODULE Spec2Model ----
(***************************************************************************)
(* Control-plane endpoint manager (package metal):                         *)
(* controlPlaneEndpointManager.reconcileNodes / reassign keep an elastic   *)
(* IP on a healthy control-plane node; reconcileServices mirrors the       *)
(* default/kubernetes service and endpoints onto a load-balancer service.  *)
(* Every shared-memory access and every API call of a handler is one step  *)
(* of the invocation that runs it, so invocations running in different     *)
(* goroutines interleave at exactly those points.                          *)
(***************************************************************************)
EXTENDS Integers, Sequences, FiniteSets, TLC

\* ---------------------------------------------------------------- bounds
\* invocations started in one behaviour
MaxCalls == 2

\* goroutines from which the reconcilers are invoked
Procs == {"g1", "g2"}

\* ------------------------------------------------------------- constants
controlPlaneLabel == "node-role.kubernetes.io/master"
externalServiceName == "cloud-provider-equinix-metal-kubernetes-external"
externalServiceNamespace == "kube-system"
metallbAnnotation == "metallb.universe.tf/address-pool"
metallbDisabledtag == "disabled-metallb-do-not-use-any-address-pool"
StatusOK == 200
ModeSync == "ModeSync"
ModeAdd == "ModeAdd"

\* ------------------------------------------------------------ the errors
ErrPort == "control plane apiserver port not provided or determined"
ErrNodeTag == "control plane loadbalancer elastic ip tag is empty"
ErrSvcTag == "elastic ip tag is empty"
ErrList == "ipResSvr.List failed"
ErrMulti == "the elastic ip has more than one node assigned to it"
ErrRequest == "http.NewRequest failed"
ErrNodePort == "control plane node apiserver port not yet determined"
ErrNodeAddresses == "instances.NodeAddresses failed"
ErrInstanceID == "instances.InstanceID failed"
ErrUnassign == "deviceIPSrv.Unassign failed"
ErrAssign == "deviceIPSrv.Assign failed"
ErrNoCandidate == "ccm didn't find a good candidate for IP allocation. Cluster is unhealthy"
ErrNoPorts == "default/kubernetes service does not have any ports defined"
ErrGetEndpoints == "failed to get endpoints"
ErrUpdateEndpoints == "failed to update my endpoints"
ErrCreateEndpoints == "failed to create my endpoints"
ErrUpdateService == "failed to update service"
ErrCreateService == "failed to create service"
ErrGetService == "could not get service for status update"
ErrUpdateStatus == "failed to update service status"
ErrNotFound == "Service default/kubernetes not found"
\* a return value: no invocation result yet / the nil error
Running == "running"
Nil == "nil"

\* ------------------------------------------------------- the environment
EIPAddress == "147.75.0.1"
EIPTag == "cluster-api-provider:cp"

\* the port values that occur: 0 is "unset"
Ports == {0, 6443, 8443}

\* nodes of the cluster: name and label keys
WorkerNode == [name |-> "worker", labels |-> {"node-role.kubernetes.io/worker"}]
CP1 == [name |-> "cp1", labels |-> {controlPlaneLabel}]
CP2 == [name |-> "cp2", labels |-> {controlPlaneLabel, "zone"}]

\* the node lists a caller passes to reconcileNodes
NodeLists == { <<>>, <<WorkerNode>>, <<WorkerNode, CP1, CP2>>, <<CP2, CP1>> }

Addr(type, address) == [type |-> type, address |-> address]

\* what instances.NodeAddresses answers for a node name
NodeAddressTable(name) ==
    CASE name = "cp1" -> << Addr("Hostname", "cp1.local"),
                            Addr("InternalIP", EIPAddress),
                            Addr("ExternalIP", "10.0.0.1") >>
      [] name = "cp2" -> << Addr("ExternalIP", "bad host"),
                            Addr("InternalIP", "10.0.0.2") >>
      [] OTHER -> << Addr("InternalIP", "10.0.0.9") >>

\* what instances.InstanceID answers for a node name
InstanceTable(name) == "device-" \o name

\* the reservation listings of the project: the reservation carrying the tag
\* comes second, after one that carries other tags only
OtherReservation ==
    [id |-> "res-other", tags |-> {"other"}, address |-> "147.75.0.9",
     assignments |-> << [id |-> 90, device |-> "device-worker"] >>]

TaggedReservation(assignments) ==
    [id |-> "res-cp", tags |-> {EIPTag, "extra"}, address |-> EIPAddress,
     assignments |-> assignments]

Listings ==
    { << OtherReservation >>,
      << OtherReservation, TaggedReservation(<< >>) >>,
      << OtherReservation, TaggedReservation(<< [id |-> 1, device |-> "device-cp1"] >>) >>,
      << OtherReservation, TaggedReservation(<< [id |-> 1, device |-> "device-cp1"],
                                               [id |-> 2, device |-> "device-cp2"] >>) >> }

\* services passed to reconcileServices
SvcPort(port, targetPort) == [name |-> "https", port |-> port, targetPort |-> targetPort]
Svc(namespace, name, ports) == [namespace |-> namespace, name |-> name, ports |-> ports]
OtherSvc == Svc("default", "web", << SvcPort(80, 8080) >>)
ShadowSvc == Svc("kube-system", "kubernetes", << SvcPort(1, 1) >>)
SvcLists ==
    { << OtherSvc, ShadowSvc >>,
      << OtherSvc, Svc("default", "kubernetes", << SvcPort(443, 6443) >>) >>,
      << Svc("default", "kubernetes", << SvcPort(443, 8443), SvcPort(53, 53) >>) >>,
      << Svc("default", "kubernetes", << >>) >> }

Modes == {ModeSync, ModeAdd}

\* the subsets of the upstream default/kubernetes endpoints object
UpstreamSubsets == << "10.0.0.1:6443", "10.0.0.2:6443" >>

\* the mirrored service as something else may have left it in the store:
\* without the annotation, with a label of its own
PreexistingServices ==
    { [name |-> externalServiceName, namespace |-> externalServiceNamespace,
       annotations |-> [k \in {} |-> ""],
       labels |-> {"added-out-of-band"}, type |-> "LoadBalancer",
       loadBalancerIP |-> "147.75.0.7", ports |-> << SvcPort(6443, 6443) >>,
       clusterIP |-> "172.16.0.5", ingress |-> << >>] }

\* the mirrored endpoints object left in the store together with it
PreexistingEndpoints ==
    { [name |-> externalServiceName, namespace |-> externalServiceNamespace,
       labels |-> {"added-out-of-band"}, subsets |-> << "10.9.9.9:6443" >>] }

\* what one HTTPS GET can end with: a transport error (no response), or a
\* response with a status code
ProbeOutcomes ==
    { [err |-> TRUE, status |-> 0],
      [err |-> FALSE, status |-> StatusOK],
      [err |-> FALSE, status |-> 503] }

\* ------------------------------------------------------- pure functions
\* fmt.Sprintf("https://%s:%d/healthz", address, port): the text is determined
\* by, and determines, the pair (address, port)
HealthCheckURL(address, port) == << "https://", address, ":", port, "/healthz" >>

\* http.NewRequest fails on a URL whose host does not parse
NewRequestOK(url) == url[2] # "bad host"

\* err == nil && resp.Body != nil: the client hands out a body with every
\* response
DefersClose(outcome) == ~outcome.err

\* err != nil || resp.StatusCode != http.StatusOK
NeedsReassign_Always(outcome) == TRUE
NeedsReassign(outcome) == outcome.err \/ outcome.status # StatusOK

\* resp.StatusCode == http.StatusOK, of a response that came
Healthy_AnyStatus(outcome) == TRUE
Healthy(outcome) == outcome.status = StatusOK

\* the first reservation of the listing that carries all the tags, as a set
\* of at most one element (nil is the empty set)
ipReservationByAllTags(tags, ipList) ==
    LET hits == { i \in 1..Len(ipList) : tags \subseteq ipList[i].tags }
    IN  IF hits = {} THEN {}
        ELSE { ipList[CHOOSE i \in hits : \A j \in hits : i <= j] }

\* controlPlaneEndpoint == nil
NotFound_Never(ip) == FALSE
NotFound(ip) == ip = {}

\* len(controlPlaneEndpoint.Assignments) > 1
MultiAssigned_NotOne(ip) == Len(ip.assignments) # 1
MultiAssigned_Never(ip) == FALSE
MultiAssigned(ip) == Len(ip.assignments) > 1

\* the nodes tagged as control plane, in input order
ControlPlaneNodes_All(nodes) == nodes
ControlPlaneNodes(nodes) ==
    SelectSeq(nodes, LAMBDA n : controlPlaneLabel \in n.labels)

\* the two skips of reassign's address loop
SkipAddress(a, healthCheckAddress, eipURL) ==
    a.type = "Hostname" \/ healthCheckAddress = eipURL

\* m.nodeAPIServerPort == 0: no reconcileServices has recorded the port yet
NodePortUnknown_Never(port) == FALSE
NodePortUnknown(port) == port = 0

\* m.apiServerPort == 0: no port was configured and none adopted yet
PortUnset_Always(port) == TRUE
PortUnset(port) == port = 0

\* len(ip.Assignments) == 1
NeedsUnassign_Never(ip) == FALSE
NeedsUnassign(ip) == Len(ip.assignments) = 1

\* ------------------------------------------------------------- the state
VARIABLES
    inProcess,          \* m.inProcess
    apiServerPort,      \* m.apiServerPort
    nodeAPIServerPort,  \* m.nodeAPIServerPort
    eipTag,             \* m.eipTag
    reservations,       \* the project's reservations, as ipResSvr.List lists them
    services,           \* the mirrored service in the store: {} or {object}
    endpoints,          \* the mirrored endpoints in the store: {} or {object}
    pc,                 \* per goroutine: the line its invocation is at
    loc,                \* per goroutine: the invocation's local variables
    calls,              \* per goroutine: the API calls of its last invocation
    ret,                \* per goroutine: what its last invocation returned
    pre,                \* per goroutine: the external state when it was invoked
    started             \* invocations started so far

vars == << inProcess, apiServerPort, nodeAPIServerPort, eipTag, reservations,
           services, endpoints, pc, loc, calls, ret, pre,
           started >>

manager == << inProcess, apiServerPort, nodeAPIServerPort, eipTag >>
store == << services, endpoints >>

NoLocals ==
    [ip |-> {}, eipURL |-> << >>, cpNodes |-> << >>, ni |-> 0,
     addresses |-> << >>, ai |-> 0, deviceID |-> "",
     existingPorts |-> << >>, subsets |-> << >>, epExisted |-> FALSE,
     myep |-> {}, ports |-> << >>, updatedService |-> {},
     open |-> << >>]

\* a response an invocation holds with its body not yet closed: of which
\* probe it is ("eip" or "node"), and whether a deferred Close is registered
Body(of, url, deferred) == [of |-> of, url |-> url, deferred |-> deferred]

\* the state outside an invocation: the cloud's, the store's, the ports
External ==
    [reservations |-> reservations, services |-> services,
     endpoints |-> endpoints, apiServerPort |-> apiServerPort,
     nodeAPIServerPort |-> nodeAPIServerPort]

\* the lines of reconcileNodes / reassign and of reconcileServices
NodeLines == {"n333", "n338", "n341", "n345", "n363", "n397", "n400", "n408",
              "n435", "n440", "n444", "n343"}
ServiceLines == {"s477", "s515", "s517", "s518", "s523", "s533", "s552",
                 "s571", "s596", "s602", "s607", "s612"}

\* what is remembered of the invocation a goroutine made before: nothing,
\* unless it returned nil
NoLast == [kind |-> "", svcs |-> << >>, mode |-> ""]

\* what an invocation starts from: which reconciler it is, the goroutines
\* inside a reconciler at that moment, the external state, its arguments
\* (recorded where the handler first reads them), and the invocation before
Start(t, kind) ==
    [kind |-> kind, busy |-> { u \in Procs \ {t} : pc[u] \in NodeLines \cup ServiceLines },
     ext |-> External, nodes |-> << >>, svcs |-> << >>, mode |-> "",
     last |-> NoLast]

\* one API call in an invocation's record: ok says that it returned no error,
\* status is the status code of a probe's response
Call(op, node, url, id, status, ok) ==
    [op |-> op, node |-> node, url |-> url, id |-> id, status |-> status, ok |-> ok]

Init ==
    /\ inProcess = FALSE
    /\ apiServerPort \in {0, 8443}
    /\ nodeAPIServerPort = 0
    /\ eipTag \in {"", EIPTag}
    /\ reservations \in Listings
    /\ \E present \in BOOLEAN :
          /\ services = IF present THEN PreexistingServices ELSE {}
          /\ endpoints = IF present THEN PreexistingEndpoints ELSE {}
    /\ pc = [t \in Procs |-> "idle"]
    /\ loc = [t \in Procs |-> NoLocals]
    /\ calls = [t \in Procs |-> << >>]
    /\ ret = [t \in Procs |-> Nil]
    /\ pre = [t \in Procs |-> Start(t, "")]
    /\ started = 0

\* the assignment ids of a list of reservations
AssignmentIDs(res) ==
    UNION { { res[i].assignments[k].id : k \in 1..Len(res[i].assignments) } :
            i \in 1..Len(res) }

\* the ids some part of the state still refers to
UsedIDs ==
    AssignmentIDs(reservations)
    \cup UNION { AssignmentIDs(pre[t].ext.reservations) : t \in Procs }
    \cup UNION { UNION { { r.assignments[k].id : k \in 1..Len(r.assignments) } :
                         r \in loc[t].ip } : t \in Procs }
    \cup UNION { { calls[t][k].id : k \in 1..Len(calls[t]) } : t \in Procs }

\* the id the cloud gives a new assignment: one that nothing refers to
FreshID == CHOOSE n \in 1..(Cardinality(UsedIDs) + 1) : n \notin UsedIDs

\* ------------------------------------------------------------- plumbing
At(t, line) == pc[t] = line

\* the invocation the goroutine has just finished, if it returned nil: which
\* reconciler it was and the arguments it read
Last(t) ==
    IF pc[t] = "done" /\ ret[t] = Nil
       THEN [kind |-> pre[t].kind, svcs |-> pre[t].svcs, mode |-> pre[t].mode]
       ELSE NoLast

Goto(t, line) == pc' = [pc EXCEPT ![t] = line]

Log(t, call) == calls' = [calls EXCEPT ![t] = Append(@, call)]

\* return err from reconcileNodes once the deferred reset is registered: the
\* deferred functions run next; the locals are gone, the response bodies the
\* invocation holds open are not
ReturnHolding(t, err, open) ==
    /\ ret' = [ret EXCEPT ![t] = err]
    /\ loc' = [loc EXCEPT ![t] = [NoLocals EXCEPT !.open = open]]
    /\ Goto(t, "n343")

ReturnDeferred(t, err) == ReturnHolding(t, err, loc[t].open)

\* return err with nothing deferred
Return(t, err) ==
    /\ ret' = [ret EXCEPT ![t] = err]
    /\ loc' = [loc EXCEPT ![t] = NoLocals]
    /\ Goto(t, "done")

\* a goroutine that runs no invocation
Free(t) == pc[t] \in {"idle", "done"}

\* the goroutines are interchangeable: g2 stands for the one that enters a
\* reconciler while another invocation is still running
MayEnter(t) == Free(t) /\ (t = "g2" => ~Free("g1"))

\* ------------------------------------------------------- reconcileNodes
\* the caller invokes reconcileNodes(ctx, nodes, mode); the node list is drawn
\* where the handler first reads it (line 380)
InvokeNodes(t) ==
    /\ MayEnter(t)
    /\ loc' = [loc EXCEPT ![t] = NoLocals]
    /\ calls' = [calls EXCEPT ![t] = << >>]
    /\ ret' = [ret EXCEPT ![t] = Running]
    /\ pre' = [pre EXCEPT ![t] = [Start(t, "nodes") EXCEPT !.last = Last(t)]]
    /\ Goto(t, "n333")
    /\ UNCHANGED << manager, reservations, store >>

\* if m.inProcess { return nil }
CheckInProcess(t) ==
    /\ At(t, "n333")
    /\ IF inProcess
          THEN Return(t, Nil)
          ELSE Goto(t, "n338") /\ UNCHANGED << ret, loc >>
    /\ UNCHANGED << manager, reservations, store, calls, pre, started >>

\* if m.apiServerPort == 0 { return errors.New(...) }
CheckAPIServerPort(t) ==
    /\ At(t, "n338")
    /\ IF apiServerPort = 0
          THEN Return(t, ErrPort)
          ELSE Goto(t, "n341") /\ UNCHANGED << ret, loc >>
    /\ UNCHANGED << manager, reservations, store, calls, pre, started >>

\* m.inProcess = true; defer func() { m.inProcess = false }()
SetInProcess(t) ==
    /\ At(t, "n341")
    /\ inProcess' = TRUE
    /\ Goto(t, "n345")
    /\ UNCHANGED << apiServerPort, nodeAPIServerPort, eipTag, reservations, store,
                    loc, calls, ret, pre, started >>

\* the tag check, ipResSvr.List, ipReservationByAllTags and the
\* multi-assignment check (lines 345-362)
ResolveReservation(t) ==
    /\ At(t, "n345")
    /\ IF eipTag = ""
          THEN ReturnDeferred(t, ErrNodeTag) /\ UNCHANGED calls
          ELSE \/ /\ Log(t, Call("List", "", << >>, 0, 0, FALSE))
                  /\ ReturnDeferred(t, ErrList)
               \/ /\ Log(t, Call("List", "", << >>, 0, 0, TRUE))
                  /\ LET ip == ipReservationByAllTags({eipTag}, reservations)
                     IN  IF NotFound(ip)
                            THEN ReturnDeferred(t, Nil)
                            ELSE IF \E r \in ip : MultiAssigned(r)
                                    THEN ReturnDeferred(t, ErrMulti)
                                    ELSE /\ loc' = [loc EXCEPT ![t].ip = ip]
                                         /\ Goto(t, "n363")
                                         /\ UNCHANGED ret
    /\ UNCHANGED << manager, reservations, store, pre, started >>

\* the probe of the elastic IP (lines 363-373) and what follows from its
\* outcome (lines 374-391)
ProbeElasticIP(t) ==
    /\ At(t, "n363")
    /\ LET ip == CHOOSE r \in loc[t].ip : TRUE
           healthCheckURL == HealthCheckURL(ip.address, apiServerPort)
       IN  IF ~NewRequestOK(healthCheckURL)
              THEN ReturnDeferred(t, ErrRequest) /\ UNCHANGED << calls, pre >>
              ELSE \E outcome \in ProbeOutcomes, nodes \in NodeLists :
                     LET opened == IF outcome.err THEN << >>
                                   ELSE << Body("eip", healthCheckURL,
                                                DefersClose(outcome)) >>
                     IN
                     /\ Log(t, Call("ProbeEIP", "", healthCheckURL, 0, outcome.status, ~outcome.err))
                     /\ IF NeedsReassign(outcome)
                           THEN /\ loc' = [loc EXCEPT
                                       ![t].eipURL = healthCheckURL,
                                       ![t].cpNodes = ControlPlaneNodes(nodes),
                                       ![t].open = opened]
                                /\ pre' = [pre EXCEPT ![t].nodes = nodes]
                                /\ Goto(t, "n397")
                                /\ UNCHANGED ret
                           ELSE ReturnHolding(t, Nil, opened) /\ UNCHANGED pre
    /\ UNCHANGED << manager, reservations, store, started >>

ResetInProcess_Skipped(t) ==
    /\ At(t, "n343")
    /\ loc' = [loc EXCEPT ![t].open = SelectSeq(@, LAMBDA b : ~b.deferred)]
    /\ inProcess' = inProcess
    /\ Goto(t, "done")
    /\ UNCHANGED << apiServerPort, nodeAPIServerPort, eipTag, reservations, store,
                    calls, ret, pre, started >>

\* the deferred functions, last registered first: resp.Body.Close() of line
\* 372 where it was registered, then m.inProcess = false
ResetInProcess(t) ==
    /\ At(t, "n343")
    /\ loc' = [loc EXCEPT ![t].open = SelectSeq(@, LAMBDA b : ~b.deferred)]
    /\ inProcess' = FALSE
    /\ Goto(t, "done")
    /\ UNCHANGED << apiServerPort, nodeAPIServerPort, eipTag, reservations, store,
                    calls, ret, pre, started >>

\* ------------------------------------------------------------- reassign
\* the cloud's Unassign: the assignment leaves the reservation that holds it
Unassigned(res, id) ==
    [i \in 1..Len(res) |->
        [res[i] EXCEPT !.assignments = SelectSeq(@, LAMBDA a : a.id # id)]]

\* whether an assignment of that id exists
AssignmentExists(res, id) ==
    \E i \in 1..Len(res) : \E k \in 1..Len(res[i].assignments) :
        res[i].assignments[k].id = id

\* the cloud's Assign: the reservation of that address gains an assignment
Assigned(res, deviceID, address, id) ==
    [i \in 1..Len(res) |->
        IF res[i].address = address
           THEN [res[i] EXCEPT !.assignments =
                    Append(@, [id |-> id, device |-> deviceID])]
           ELSE res[i]]

\* the locals after the address loop moves on: to the node's next address,
\* or past its last one to the next node
NextAddress(l) ==
    IF l.ai < Len(l.addresses)
       THEN [l EXCEPT !.ai = @ + 1]
       ELSE [l EXCEPT !.ni = @ + 1, !.ai = 0, !.addresses = << >>]

AddressLine(l) == IF l.ai = 0 THEN "n400" ELSE "n408"

MoveOnWith(t, l) ==
    /\ loc' = [loc EXCEPT ![t] = NextAddress(l)]
    /\ Goto(t, AddressLine(NextAddress(l)))
    /\ UNCHANGED ret

MoveOn(t) == MoveOnWith(t, loc[t])

CheckNodeAPIServerPort_Adopts(t) ==
    /\ At(t, "n397")
    /\ nodeAPIServerPort' = IF NodePortUnknown(nodeAPIServerPort)
                               THEN apiServerPort ELSE nodeAPIServerPort
    /\ loc' = [loc EXCEPT ![t].ni = 1]
    /\ Goto(t, "n400")
    /\ UNCHANGED << inProcess, apiServerPort, eipTag, reservations, store,
                    calls, ret, pre, started >>

\* if m.nodeAPIServerPort == 0 { return errors.New(...) }
CheckNodeAPIServerPort(t) ==
    /\ At(t, "n397")
    /\ IF NodePortUnknown(nodeAPIServerPort)
          THEN ReturnDeferred(t, ErrNodePort)
          ELSE /\ loc' = [loc EXCEPT ![t].ni = 1]
               /\ Goto(t, "n400")
               /\ UNCHANGED ret
    /\ UNCHANGED << manager, reservations, store, calls, pre, started >>

\* for _, node := range nodes { addresses, err := m.instances.NodeAddresses(...)
\* and, past the last node, the final return (line 455)
LookupNodeAddresses(t) ==
    /\ At(t, "n400")
    /\ IF loc[t].ni > Len(loc[t].cpNodes)
          THEN ReturnDeferred(t, ErrNoCandidate) /\ UNCHANGED calls
          ELSE LET node == loc[t].cpNodes[loc[t].ni]
               IN  \/ /\ Log(t, Call("NodeAddresses", node.name, << >>, 0, 0, FALSE))
                      /\ ReturnDeferred(t, ErrNodeAddresses)
                   \/ /\ Log(t, Call("NodeAddresses", node.name, << >>, 0, 0, TRUE))
                      /\ LET l == [loc[t] EXCEPT
                                     !.addresses = NodeAddressTable(node.name),
                                     !.ai = 0]
                         IN  /\ loc' = [loc EXCEPT ![t] = NextAddress(l)]
                             /\ Goto(t, AddressLine(NextAddress(l)))
                      /\ UNCHANGED ret
    /\ UNCHANGED << manager, reservations, store, pre, started >>

\* one round of the address loop (lines 408-432 and 452)
ProbeAddress(t) ==
    /\ At(t, "n408")
    /\ LET node == loc[t].cpNodes[loc[t].ni]
           a == loc[t].addresses[loc[t].ai]
           healthCheckAddress == HealthCheckURL(a.address, nodeAPIServerPort)
       IN  IF SkipAddress(a, healthCheckAddress, loc[t].eipURL)
                \/ ~NewRequestOK(healthCheckAddress)
              THEN MoveOn(t) /\ UNCHANGED calls
              ELSE \E outcome \in ProbeOutcomes :
                     LET held == IF outcome.err THEN loc[t]
                                 ELSE [loc[t] EXCEPT !.open =
                                          Append(@, Body("node", healthCheckAddress, FALSE))]
                     IN
                     /\ Log(t, Call("Probe", node.name, healthCheckAddress, 0,
                                    outcome.status, ~outcome.err))
                     /\ IF ~outcome.err /\ Healthy(outcome)
                           THEN /\ loc' = [loc EXCEPT ![t] = held]
                                /\ Goto(t, "n435")
                                /\ UNCHANGED ret
                           ELSE MoveOnWith(t, held)
    /\ UNCHANGED << manager, reservations, store, pre, started >>

\* deviceID, err := m.instances.InstanceID(ctx, types.NodeName(node.Name))
LookupInstanceID(t) ==
    /\ At(t, "n435")
    /\ LET node == loc[t].cpNodes[loc[t].ni]
           ip == CHOOSE r \in loc[t].ip : TRUE
       IN  \/ /\ Log(t, Call("InstanceID", node.name, << >>, 0, 0, FALSE))
              /\ ReturnDeferred(t, ErrInstanceID)
           \/ /\ Log(t, Call("InstanceID", node.name, << >>, 0, 0, TRUE))
              /\ loc' = [loc EXCEPT ![t].deviceID = InstanceTable(node.name)]
              /\ Goto(t, IF NeedsUnassign(ip) THEN "n440" ELSE "n444")
              /\ UNCHANGED ret
    /\ UNCHANGED << manager, reservations, store, pre, started >>

\* m.deviceIPSrv.Unassign(ip.Assignments[0].ID)
UnassignStep_GoesOn(t) ==
    /\ At(t, "n440")
    /\ LET ip == CHOOSE r \in loc[t].ip : TRUE
           id == ip.assignments[1].id
       IN  \/ /\ Log(t, Call("Unassign", "", << >>, id, 0, FALSE))
              /\ UNCHANGED reservations
           \/ /\ AssignmentExists(reservations, id)
              /\ Log(t, Call("Unassign", "", << >>, id, 0, TRUE))
              /\ reservations' = Unassigned(reservations, id)
    /\ Goto(t, "n444")
    /\ UNCHANGED << manager, store, loc, ret, pre, started >>

UnassignStep(t) ==
    /\ At(t, "n440")
    /\ LET ip == CHOOSE r \in loc[t].ip : TRUE
           id == ip.assignments[1].id
       IN  \/ /\ Log(t, Call("Unassign", "", << >>, id, 0, FALSE))
              /\ ReturnDeferred(t, ErrUnassign)
              /\ UNCHANGED reservations
           \/ /\ AssignmentExists(reservations, id)
              /\ Log(t, Call("Unassign", "", << >>, id, 0, TRUE))
              /\ reservations' = Unassigned(reservations, id)
              /\ Goto(t, "n444")
              /\ UNCHANGED << loc, ret >>
    /\ UNCHANGED << manager, store, pre, started >>

\* m.deviceIPSrv.Assign(deviceID, &packngo.AddressStruct{Address: ip.Address})
AssignStep(t) ==
    /\ At(t, "n444")
    /\ LET ip == CHOOSE r \in loc[t].ip : TRUE
       IN  \/ /\ Log(t, Call("Assign", loc[t].deviceID, << >>, 0, 0, FALSE))
              /\ ReturnDeferred(t, ErrAssign)
              /\ UNCHANGED reservations
           \/ /\ Log(t, Call("Assign", loc[t].deviceID, << >>, FreshID, 0, TRUE))
              /\ reservations' =
                    Assigned(reservations, loc[t].deviceID, ip.address, FreshID)
              /\ ReturnDeferred(t, Nil)
    /\ UNCHANGED << manager, store, pre, started >>

ReconcileNodes(t) ==
    \/ CheckInProcess(t)
    \/ CheckAPIServerPort(t)
    \/ SetInProcess(t)
    \/ ResolveReservation(t)
    \/ ProbeElasticIP(t)
    \/ CheckNodeAPIServerPort(t)
    \/ LookupNodeAddresses(t)
    \/ ProbeAddress(t)
    \/ LookupInstanceID(t)
    \/ UnassignStep(t)
    \/ AssignStep(t)
    \/ ResetInProcess(t)

\* ------------------------------------- package packet: reconcileNodes
\* the older schema variant of the same file: no check of the desired port,
\* no node-side port, no skip of the elastic IP's own URL, and the Close of
\* the probe's response deferred at the end (line 122)
PacketLines == {"p73", "p77", "p81", "p99", "p128", "p136", "p159", "p164",
                "p168", "p122", "p79"}

\* the first reservation of the listing that carries the tags
ipReservationByTags(tags, ipList) ==
    LET hits == { i \in 1..Len(ipList) : tags \subseteq ipList[i].tags }
    IN  IF hits = {} THEN {}
        ELSE { ipList[CHOOSE i \in hits : \A j \in hits : i <= j] }

\* resp == nil: the probe of the elastic IP ended with a transport error
RespIsNil(open) == \A k \in 1..Len(open) : open[k].of # "eip"

\* return err with the deferred reset of lines 78-80 pending
PacketReturnDeferred(t, err) ==
    /\ ret' = [ret EXCEPT ![t] = err]
    /\ loc' = [loc EXCEPT ![t] = [NoLocals EXCEPT !.open = loc[t].open]]
    /\ Goto(t, "p79")

PacketInvokeNodes(t) ==
    /\ MayEnter(t)
    /\ loc' = [loc EXCEPT ![t] = NoLocals]
    /\ calls' = [calls EXCEPT ![t] = << >>]
    /\ ret' = [ret EXCEPT ![t] = Running]
    /\ pre' = [pre EXCEPT ![t] = Start(t, "packet.nodes")]
    /\ Goto(t, "p73")
    /\ UNCHANGED << manager, reservations, store >>

\* if m.inProcess { return nil }
PacketCheckInProcess(t) ==
    /\ At(t, "p73")
    /\ IF inProcess
          THEN Return(t, Nil)
          ELSE Goto(t, "p77") /\ UNCHANGED << ret, loc >>
    /\ UNCHANGED << manager, reservations, store, calls, pre, started >>

\* m.inProcess = true; defer func() { m.inProcess = false }()
PacketSetInProcess(t) ==
    /\ At(t, "p77")
    /\ inProcess' = TRUE
    /\ Goto(t, "p81")
    /\ UNCHANGED << apiServerPort, nodeAPIServerPort, eipTag, reservations, store,
                    loc, calls, ret, pre, started >>

\* the tag check, ipResSvr.List, ipReservationByTags and the
\* multi-assignment check (lines 81-98)
PacketResolveReservation(t) ==
    /\ At(t, "p81")
    /\ IF eipTag = ""
          THEN PacketReturnDeferred(t, ErrSvcTag) /\ UNCHANGED calls
          ELSE \/ /\ Log(t, Call("List", "", << >>, 0, 0, FALSE))
                  /\ PacketReturnDeferred(t, ErrList)
               \/ /\ Log(t, Call("List", "", << >>, 0, 0, TRUE))
                  /\ LET ip == ipReservationByTags({eipTag}, reservations)
                     IN  IF NotFound(ip)
                            THEN PacketReturnDeferred(t, Nil)
                            ELSE IF \E r \in ip : MultiAssigned(r)
                                    THEN PacketReturnDeferred(t, ErrMulti)
                                    ELSE /\ loc' = [loc EXCEPT ![t].ip = ip]
                                         /\ Goto(t, "p99")
                                         /\ UNCHANGED ret
    /\ UNCHANGED << manager, reservations, store, pre, started >>

\* the probe of the elastic IP (lines 99-104) and the branch of line 105 with
\* the filter of lines 110-116
PacketProbeElasticIP(t) ==
    /\ At(t, "p99")
    /\ LET ip == CHOOSE r \in loc[t].ip : TRUE
           healthCheckURL == HealthCheckURL(ip.address, apiServerPort)
       IN  IF ~NewRequestOK(healthCheckURL)
              THEN PacketReturnDeferred(t, ErrRequest) /\ UNCHANGED << calls, pre >>
              ELSE \E outcome \in ProbeOutcomes, nodes \in NodeLists :
                     LET opened == IF outcome.err THEN << >>
                                   ELSE << Body("eip", healthCheckURL, FALSE) >>
                     IN
                     /\ Log(t, Call("ProbeEIP", "", healthCheckURL, 0, outcome.status, ~outcome.err))
                     /\ IF NeedsReassign(outcome)
                           THEN /\ loc' = [loc EXCEPT
                                       ![t].cpNodes = ControlPlaneNodes(nodes),
                                       ![t].ni = 1,
                                       ![t].open = opened]
                                /\ pre' = [pre EXCEPT ![t].nodes = nodes]
                                /\ Goto(t, "p128")
                           ELSE /\ loc' = [loc EXCEPT ![t].open = opened]
                                /\ Goto(t, "p122")
                                /\ UNCHANGED pre
                     /\ UNCHANGED ret
    /\ UNCHANGED << manager, reservations, store, started >>

PacketAddressLine(l) == IF l.ai = 0 THEN "p128" ELSE "p136"

PacketMoveOnWith(t, l) ==
    /\ loc' = [loc EXCEPT ![t] = NextAddress(l)]
    /\ Goto(t, PacketAddressLine(NextAddress(l)))
    /\ UNCHANGED ret

\* for _, node := range nodes { addresses, err := m.instances.NodeAddresses(...)
\* and, past the last node, the final return (line 178)
PacketLookupNodeAddresses(t) ==
    /\ At(t, "p128")
    /\ IF loc[t].ni > Len(loc[t].cpNodes)
          THEN PacketReturnDeferred(t, ErrNoCandidate) /\ UNCHANGED calls
          ELSE LET node == loc[t].cpNodes[loc[t].ni]
               IN  \/ /\ Log(t, Call("NodeAddresses", node.name, << >>, 0, 0, FALSE))
                      /\ PacketReturnDeferred(t, ErrNodeAddresses)
                   \/ /\ Log(t, Call("NodeAddresses", node.name, << >>, 0, 0, TRUE))
                      /\ PacketMoveOnWith(t, [loc[t] EXCEPT
                                                 !.addresses = NodeAddressTable(node.name),
                                                 !.ai = 0])
    /\ UNCHANGED << manager, reservations, store, pre, started >>

\* one round of the address loop (lines 136-158 and 176)
PacketProbeAddress(t) ==
    /\ At(t, "p136")
    /\ LET node == loc[t].cpNodes[loc[t].ni]
           a == loc[t].addresses[loc[t].ai]
           healthCheckAddress == HealthCheckURL(a.address, apiServerPort)
       IN  IF a.type = "Hostname" \/ ~NewRequestOK(healthCheckAddress)
              THEN PacketMoveOnWith(t, loc[t]) /\ UNCHANGED calls
              ELSE \E outcome \in ProbeOutcomes :
                     LET held == IF outcome.err THEN loc[t]
                                 ELSE [loc[t] EXCEPT !.open =
                                          Append(@, Body("node", healthCheckAddress, FALSE))]
                     IN
                     /\ Log(t, Call("Probe", node.name, healthCheckAddress, 0,
                                    outcome.status, ~outcome.err))
                     /\ IF ~outcome.err /\ Healthy(outcome)
                           THEN /\ loc' = [loc EXCEPT ![t] = held]
                                /\ Goto(t, "p159")
                                /\ UNCHANGED ret
                           ELSE PacketMoveOnWith(t, held)
    /\ UNCHANGED << manager, reservations, store, pre, started >>

\* deviceID, err := m.instances.InstanceID(ctx, types.NodeName(node.Name))
PacketLookupInstanceID(t) ==
    /\ At(t, "p159")
    /\ LET node == loc[t].cpNodes[loc[t].ni]
           ip == CHOOSE r \in loc[t].ip : TRUE
       IN  \/ /\ Log(t, Call("InstanceID", node.name, << >>, 0, 0, FALSE))
              /\ PacketReturnDeferred(t, ErrInstanceID)
           \/ /\ Log(t, Call("InstanceID", node.name, << >>, 0, 0, TRUE))
              /\ loc' = [loc EXCEPT ![t].deviceID = InstanceTable(node.name)]
              /\ Goto(t, IF NeedsUnassign(ip) THEN "p164" ELSE "p168")
              /\ UNCHANGED ret
    /\ UNCHANGED << manager, reservations, store, pre, started >>

\* m.deviceIPSrv.Unassign(ip.Assignments[0].ID)
PacketUnassignStep(t) ==
    /\ At(t, "p164")
    /\ LET ip == CHOOSE r \in loc[t].ip : TRUE
           id == ip.assignments[1].id
       IN  \/ /\ Log(t, Call("Unassign", "", << >>, id, 0, FALSE))
              /\ PacketReturnDeferred(t, ErrUnassign)
              /\ UNCHANGED reservations
           \/ /\ AssignmentExists(reservations, id)
              /\ Log(t, Call("Unassign", "", << >>, id, 0, TRUE))
              /\ reservations' = Unassigned(reservations, id)
              /\ Goto(t, "p168")
              /\ UNCHANGED << loc, ret >>
    /\ UNCHANGED << manager, store, pre, started >>

\* m.deviceIPSrv.Assign(...); reassign returns nil and reconcileNodes goes on
\* to line 122
PacketAssignStep(t) ==
    /\ At(t, "p168")
    /\ LET ip == CHOOSE r \in loc[t].ip : TRUE
       IN  \/ /\ Log(t, Call("Assign", loc[t].deviceID, << >>, 0, 0, FALSE))
              /\ PacketReturnDeferred(t, ErrAssign)
              /\ UNCHANGED reservations
           \/ /\ Log(t, Call("Assign", loc[t].deviceID, << >>, FreshID, 0, TRUE))
              /\ reservations' =
                    Assigned(reservations, loc[t].deviceID, ip.address, FreshID)
              /\ Goto(t, "p122")
              /\ UNCHANGED << loc, ret >>
    /\ UNCHANGED << manager, store, pre, started >>

\* defer resp.Body.Close(); return nil. The defer statement evaluates
\* resp.Body: with resp == nil that is a nil pointer dereference, the
\* goroutine panics, and the deferred reset runs while it unwinds. Otherwise
\* the Close runs at the return, before the reset.
PacketDeferClose(t) ==
    /\ At(t, "p122")
    /\ IF RespIsNil(loc[t].open)
          THEN /\ inProcess' = FALSE
               /\ Goto(t, "panic")
               /\ UNCHANGED << loc, ret >>
          ELSE /\ ret' = [ret EXCEPT ![t] = Nil]
               /\ loc' = [loc EXCEPT ![t] = [NoLocals EXCEPT !.open =
                             SelectSeq(loc[t].open, LAMBDA b : b.of # "eip")]]
               /\ Goto(t, "p79")
               /\ UNCHANGED inProcess
    /\ UNCHANGED << apiServerPort, nodeAPIServerPort, eipTag, reservations, store,
                    calls, pre, started >>

\* the deferred function: m.inProcess = false
PacketResetInProcess(t) ==
    /\ At(t, "p79")
    /\ inProcess' = FALSE
    /\ Goto(t, "done")
    /\ UNCHANGED << apiServerPort, nodeAPIServerPort, eipTag, reservations, store,
                    loc, calls, ret, pre, started >>

PacketReconcileNodes(t) ==
    \/ PacketCheckInProcess(t)
    \/ PacketSetInProcess(t)
    \/ PacketResolveReservation(t)
    \/ PacketProbeElasticIP(t)
    \/ PacketLookupNodeAddresses(t)
    \/ PacketProbeAddress(t)
    \/ PacketLookupInstanceID(t)
    \/ PacketUnassignStep(t)
    \/ PacketAssignStep(t)
    \/ PacketDeferClose(t)
    \/ PacketResetInProcess(t)

\* package packet's reconcileNodes called one invocation at a time
PacketNext ==
    \E t \in Procs :
        \/ (\A u \in Procs : Free(u)) /\ PacketInvokeNodes(t) /\ UNCHANGED started
        \/ PacketReconcileNodes(t)

PacketSpec == Init /\ [][PacketNext]_vars

\* ---------------------------------------------------- reconcileServices
\* the caller invokes reconcileServices(ctx, svcs, mode); the service list and
\* the mode are drawn where the handler first reads them (lines 502 and 626)
InvokeServices_SingleFlight(t) ==
    /\ MayEnter(t)
    /\ loc' = [loc EXCEPT ![t] = NoLocals]
    /\ calls' = [calls EXCEPT ![t] = << >>]
    /\ pre' = [pre EXCEPT ![t] = [Start(t, "services") EXCEPT !.last = Last(t)]]
    /\ IF \E u \in Procs \ {t} : pc[u] \in ServiceLines
          THEN ret' = [ret EXCEPT ![t] = Nil] /\ Goto(t, "done")
          ELSE ret' = [ret EXCEPT ![t] = Running] /\ Goto(t, "s477")
    /\ UNCHANGED << manager, reservations, store >>

InvokeServices(t) ==
    /\ MayEnter(t)
    /\ loc' = [loc EXCEPT ![t] = NoLocals]
    /\ calls' = [calls EXCEPT ![t] = << >>]
    /\ ret' = [ret EXCEPT ![t] = Running]
    /\ pre' = [pre EXCEPT ![t] = [Start(t, "services") EXCEPT !.last = Last(t)]]
    /\ Goto(t, "s477")
    /\ UNCHANGED << manager, reservations, store >>

\* only take default/kubernetes: the indexes of the services the loop stops at
Matching(svcs) ==
    { i \in 1..Len(svcs) : svcs[i].namespace = "default" /\ svcs[i].name = "kubernetes" }

\* the service the loop stops at: the first that matches
FirstMatch(svcs) ==
    svcs[CHOOSE i \in Matching(svcs) : \A j \in Matching(svcs) : i <= j]

\* every sync should find default/kubernetes (lines 625-629)
NoMatchResult_AlwaysNil(mode) == Nil
NoMatchResult(mode) == IF mode = ModeSync THEN ErrNotFound ELSE Nil

\* the externalService object of lines 573-586
ExternalService(eip, ports) ==
    [name |-> externalServiceName, namespace |-> externalServiceNamespace,
     annotations |-> [k \in {metallbAnnotation} |-> metallbDisabledtag],
     labels |-> {}, type |-> "LoadBalancer", loadBalancerIP |-> eip,
     ports |-> ports, clusterIP |-> "", ingress |-> << >>]

\* the new endpoints object of lines 536-541
NewEndpoints ==
    [name |-> externalServiceName, namespace |-> externalServiceNamespace,
     labels |-> {}, subsets |-> << >>]

\* ports: a copy of existingPorts with ports[0].Port = m.apiServerPort
MirrorPorts_Copy(existingPorts, port) == existingPorts
MirrorPorts(existingPorts, port) == [existingPorts EXCEPT ![1].port = port]

\* what the update path overwrites in the stored service (lines 594-595)
Overwrite_Everything(stored, eip, ports) == ExternalService(eip, ports)
Overwrite(stored, eip, ports) ==
    [stored EXCEPT !.loadBalancerIP = eip, !.ports = ports]

\* the status the reconciler publishes (lines 612-618)
PublishedIngress(eip) == << [ip |-> eip] >>

\* the tag check, the reservation lookup and the search for default/kubernetes
\* with its ports (lines 477-512), and the returns after the loop (625-629)
ResolveService(t) ==
    /\ At(t, "s477")
    /\ IF eipTag = ""
          THEN Return(t, ErrSvcTag) /\ UNCHANGED << calls, pre >>
          ELSE \/ /\ Log(t, Call("List", "", << >>, 0, 0, FALSE))
                  /\ Return(t, ErrList)
                  /\ UNCHANGED pre
               \/ /\ Log(t, Call("List", "", << >>, 0, 0, TRUE))
                  /\ LET ip == ipReservationByAllTags({eipTag}, reservations)
                     IN  IF NotFound(ip)
                            THEN Return(t, Nil) /\ UNCHANGED pre
                         ELSE IF \E r \in ip : MultiAssigned(r)
                            THEN Return(t, ErrMulti) /\ UNCHANGED pre
                         ELSE \E svcs \in SvcLists :
                            IF Matching(svcs) = {}
                               THEN \E mode \in Modes :
                                      /\ pre' = [pre EXCEPT ![t].svcs = svcs,
                                                            ![t].mode = mode]
                                      /\ Return(t, NoMatchResult(mode))
                            ELSE /\ pre' = [pre EXCEPT ![t].svcs = svcs]
                                 /\ IF Len(FirstMatch(svcs).ports) < 1
                                       THEN Return(t, ErrNoPorts)
                                       ELSE /\ loc' = [loc EXCEPT
                                                  ![t].ip = ip,
                                                  ![t].existingPorts = FirstMatch(svcs).ports]
                                            /\ Goto(t, "s515")
                                            /\ UNCHANGED ret
    /\ UNCHANGED << manager, reservations, store, started >>

\* m.nodeAPIServerPort = existingPorts[0].TargetPort.IntVal
TrackNodePort(t) ==
    /\ At(t, "s515")
    /\ nodeAPIServerPort' = loc[t].existingPorts[1].targetPort
    /\ Goto(t, "s517")
    /\ UNCHANGED << inProcess, apiServerPort, eipTag, reservations, store,
                    loc, calls, ret, pre, started >>

\* if m.apiServerPort == 0 {
CheckPortUnset(t) ==
    /\ At(t, "s517")
    /\ Goto(t, IF PortUnset(apiServerPort) THEN "s518" ELSE "s523")
    /\ UNCHANGED << manager, reservations, store, loc, calls, ret, pre, started >>

\* m.apiServerPort = m.nodeAPIServerPort
AdoptNodePort(t) ==
    /\ At(t, "s518")
    /\ apiServerPort' = nodeAPIServerPort
    /\ Goto(t, "s523")
    /\ UNCHANGED << inProcess, nodeAPIServerPort, eipTag, reservations, store,
                    loc, calls, ret, pre, started >>

\* ep, err := eps.Get(ctx, svc.Name, ...)
GetUpstreamEndpoints(t) ==
    /\ At(t, "s523")
    /\ \/ /\ Log(t, Call("GetEndpoints", "kubernetes", << >>, 0, 0, FALSE))
          /\ Return(t, ErrGetEndpoints)
       \/ /\ Log(t, Call("GetEndpoints", "kubernetes", << >>, 0, 0, TRUE))
          /\ loc' = [loc EXCEPT ![t].subsets = UpstreamSubsets]
          /\ Goto(t, "s533")
          /\ UNCHANGED ret
    /\ UNCHANGED << manager, reservations, store, pre, started >>

\* myep.Subsets = []v1.EndpointSubset{} and the copy of ep.Subsets into it
CopiedSubsets_Appended(existing, upstream) == existing \o upstream
CopiedSubsets(existing, upstream) == upstream

\* myep, err := myeps.Get(ctx, externalServiceName, ...) and the copy of the
\* subsets (lines 531-549)
GetMirroredEndpoints(t) ==
    /\ At(t, "s533")
    /\ \/ /\ Log(t, Call("GetEndpoints", externalServiceName, << >>, 0, 0, FALSE))
          /\ loc' = [loc EXCEPT
                ![t].epExisted = FALSE,
                ![t].myep = { [NewEndpoints EXCEPT
                                  !.subsets = CopiedSubsets(@, loc[t].subsets)] }]
       \/ /\ endpoints # {}
          /\ Log(t, Call("GetEndpoints", externalServiceName, << >>, 0, 0, TRUE))
          /\ loc' = [loc EXCEPT
                ![t].epExisted = TRUE,
                ![t].myep = { [e EXCEPT !.subsets = CopiedSubsets(@, loc[t].subsets)] :
                              e \in endpoints }]
    /\ Goto(t, "s552")
    /\ UNCHANGED << manager, reservations, store, ret, pre, started >>

\* save the endpoints: myeps.Update or myeps.Create (lines 552-562)
SaveEndpoints(t) ==
    /\ At(t, "s552")
    /\ IF loc[t].epExisted
          THEN \/ /\ Log(t, Call("UpdateEndpoints", externalServiceName, << >>, 0, 0, FALSE))
                  /\ Return(t, ErrUpdateEndpoints)
                  /\ UNCHANGED endpoints
               \/ /\ endpoints # {}
                  /\ Log(t, Call("UpdateEndpoints", externalServiceName, << >>, 0, 0, TRUE))
                  /\ endpoints' = loc[t].myep
                  /\ Goto(t, "s571")
                  /\ UNCHANGED << loc, ret >>
          ELSE \/ /\ Log(t, Call("CreateEndpoints", externalServiceName, << >>, 0, 0, FALSE))
                  /\ Return(t, ErrCreateEndpoints)
                  /\ UNCHANGED endpoints
               \/ /\ endpoints = {}
                  /\ Log(t, Call("CreateEndpoints", externalServiceName, << >>, 0, 0, TRUE))
                  /\ endpoints' = loc[t].myep
                  /\ Goto(t, "s571")
                  /\ UNCHANGED << loc, ret >>
    /\ UNCHANGED << manager, reservations, services, pre, started >>

\* the ports of the mirrored service (lines 565-571) and
\* updatedService, err = svcIntf.Get(...) with the overwrite of lines 594-595
GetMirroredService(t) ==
    /\ At(t, "s571")
    /\ LET ip == CHOOSE r \in loc[t].ip : TRUE
           ports == MirrorPorts(loc[t].existingPorts, apiServerPort)
       IN  \/ /\ Log(t, Call("GetService", externalServiceName, << >>, 0, 0, FALSE))
              /\ loc' = [loc EXCEPT ![t].ports = ports]
              /\ Goto(t, "s602")
           \/ /\ services # {}
              /\ Log(t, Call("GetService", externalServiceName, << >>, 0, 0, TRUE))
              /\ loc' = [loc EXCEPT
                    ![t].ports = ports,
                    ![t].updatedService =
                        { Overwrite(s, ip.address, ports) : s \in services }]
              /\ Goto(t, "s596")
    /\ UNCHANGED << manager, reservations, store, ret, pre, started >>

\* svcIntf.Update(ctx, updatedService, ...)
UpdateService(t) ==
    /\ At(t, "s596")
    /\ \/ /\ Log(t, Call("UpdateService", externalServiceName, << >>, 0, 0, FALSE))
          /\ Return(t, ErrUpdateService)
          /\ UNCHANGED services
       \/ /\ services # {}
          /\ Log(t, Call("UpdateService", externalServiceName, << >>, 0, 0, TRUE))
          /\ services' = loc[t].updatedService
          /\ Goto(t, "s607")
          /\ UNCHANGED << loc, ret >>
    /\ UNCHANGED << manager, reservations, endpoints, pre, started >>

\* svcIntf.Create(ctx, externalService, ...)
CreateService(t) ==
    /\ At(t, "s602")
    /\ LET ip == CHOOSE r \in loc[t].ip : TRUE
       IN  \/ /\ Log(t, Call("CreateService", externalServiceName, << >>, 0, 0, FALSE))
              /\ Return(t, ErrCreateService)
              /\ UNCHANGED services
           \/ /\ services = {}
              /\ Log(t, Call("CreateService", externalServiceName, << >>, 0, 0, TRUE))
              /\ services' = { ExternalService(ip.address, loc[t].ports) }
              /\ Goto(t, "s607")
              /\ UNCHANGED << loc, ret >>
    /\ UNCHANGED << manager, reservations, endpoints, pre, started >>

\* updatedService, err = svcIntf.Get(...) for the status update
GetForStatus(t) ==
    /\ At(t, "s607")
    /\ \/ /\ Log(t, Call("GetService", externalServiceName, << >>, 0, 0, FALSE))
          /\ Return(t, ErrGetService)
       \/ /\ services # {}
          /\ Log(t, Call("GetService", externalServiceName, << >>, 0, 0, TRUE))
          /\ loc' = [loc EXCEPT ![t].updatedService = services]
          /\ Goto(t, "s612")
          /\ UNCHANGED ret
    /\ UNCHANGED << manager, reservations, store, pre, started >>

\* updatedService.Status = ...; svcIntf.UpdateStatus(ctx, updatedService, ...):
\* the status subresource takes the object's status and nothing else
UpdateStatus(t) ==
    /\ At(t, "s612")
    /\ LET ip == CHOOSE r \in loc[t].ip : TRUE
       IN  \/ /\ Log(t, Call("UpdateStatus", externalServiceName, << >>, 0, 0, FALSE))
              /\ Return(t, ErrUpdateStatus)
              /\ UNCHANGED services
           \/ /\ services # {}
              /\ Log(t, Call("UpdateStatus", externalServiceName, << >>, 0, 0, TRUE))
              /\ services' = { [s EXCEPT !.ingress = PublishedIngress(ip.address)] :
                               s \in services }
              /\ Return(t, Nil)
    /\ UNCHANGED << manager, reservations, endpoints, pre, started >>

ReconcileServices(t) ==
    \/ ResolveService(t)
    \/ TrackNodePort(t)
    \/ CheckPortUnset(t)
    \/ AdoptNodePort(t)
    \/ GetUpstreamEndpoints(t)
    \/ GetMirroredEndpoints(t)
    \/ SaveEndpoints(t)
    \/ GetMirroredService(t)
    \/ UpdateService(t)
    \/ CreateService(t)
    \/ GetForStatus(t)
    \/ UpdateStatus(t)

\* ------------------------------------------------------ specifications
\* the outer loop as section 5 of the design has it: the reconcilers are
\* called synchronously, one invocation at a time, any number of times
Next ==
    \E t \in Procs :
        \/ (\A u \in Procs : Free(u)) /\ InvokeNodes(t) /\ UNCHANGED started
        \/ (\A u \in Procs : Free(u)) /\ InvokeServices(t) /\ UNCHANGED started
        \/ ReconcileNodes(t)
        \/ ReconcileServices(t)

Spec == Init /\ [][Next]_vars

\* the reconcilers invoked from two goroutines at any time, MaxCalls times
ConcNext ==
    \E t \in Procs :
        \/ started < MaxCalls /\ InvokeNodes(t) /\ started' = started + 1
        \/ started < MaxCalls /\ InvokeServices(t) /\ started' = started + 1
        \/ ReconcileNodes(t)
        \/ ReconcileServices(t)

ConcSpec == Init /\ [][ConcNext]_vars

\* reconcileServices invoked from two goroutines at any time, MaxCalls times
ServicesConcNext ==
    \E t \in Procs :
        \/ started < MaxCalls /\ InvokeServices(t) /\ started' = started + 1
        \/ ReconcileServices(t)

\* a cluster in operation: the tag is set and the tagged reservation has its
\* one assignment
ServicesConcInit ==
    /\ Init
    /\ eipTag = EIPTag
    /\ \E r \in ipReservationByAllTags({EIPTag}, reservations) :
          Len(r.assignments) = 1

ServicesConcSpec == ServicesConcInit /\ [][ServicesConcNext]_vars

\* the file holds two builds of the manager, packages packet and metal: a
\* process runs one of them. The first reconcileNodes it is given settles
\* which; its reconcilers are called one invocation at a time. Of package
\* packet only reconcileNodes is followed, its reconcileServices writes no
\* field of the manager.
BuiltFrom(kinds) == \A u \in Procs : pre[u].kind \in kinds \cup {""}

VariantsNext ==
    \E t \in Procs :
        \/ /\ \A u \in Procs : Free(u)
           /\ BuiltFrom({"nodes", "services"})
           /\ InvokeNodes(t)
           /\ UNCHANGED started
        \/ /\ \A u \in Procs : Free(u)
           /\ BuiltFrom({"nodes", "services"})
           /\ InvokeServices(t)
           /\ UNCHANGED started
        \/ ReconcileNodes(t)
        \/ ReconcileServices(t)
        \/ /\ \A u \in Procs : Free(u)
           /\ BuiltFrom({"packet.nodes"})
           /\ PacketInvokeNodes(t)
           /\ UNCHANGED started
        \/ PacketReconcileNodes(t)

VariantsSpec == Init /\ [][VariantsNext]_vars

\* ---------------------------------------------------------------- claims
\* what the claims read off an invocation's record
Returned(t) == pc[t] = "done"
NodesCall(t) == pre[t].kind = "nodes"
ServicesCall(t) == pre[t].kind = "services"
InNodes(t) == NodesCall(t) /\ pc[t] \in NodeLines
Positions(t, op) == { k \in 1..Len(calls[t]) : calls[t][k].op = op }
Made(t, op) == Positions(t, op) # {}
Succeeded(t, op) == \E k \in Positions(t, op) : calls[t][k].ok
\* the reservation the invocation's listing resolves to, when nothing else
\* runs beside it
ResolvedAtStart(t) == ipReservationByAllTags({eipTag}, pre[t].ext.reservations)
NodeCalls == {"NodeAddresses", "Probe", "InstanceID"}
CloudMutations == {"Unassign", "Assign"}
StoreMutations == {"UpdateEndpoints", "CreateEndpoints", "UpdateService",
                   "CreateService", "UpdateStatus"}
StoreReads == {"GetEndpoints", "GetService"}

\* C1: an invocation of reconcileNodes that was invoked while an earlier one
\* was running, and that earlier one is still running and at work (it has
\* made API calls), has made no API call itself.
C1_OverlappingCallMakesNoAPICall ==
    \A t \in Procs : \A u \in Procs \ {t} :
        ( /\ InNodes(t) /\ InNodes(u)
          /\ u \in pre[t].busy /\ t \notin pre[u].busy
          /\ calls[u] # << >> )
        => calls[t] = << >>

\* C2: after reconcileNodes returned, with whatever result, a reservation that
\* had exactly one assignment when it was invoked has exactly one, and none
\* that had at most one has more than one.
C2_NeverOrphanedNeverDoubled ==
    \A t \in Procs :
        (NodesCall(t) /\ Returned(t)) =>
            \A i \in 1..Len(reservations) :
                LET before == Len(pre[t].ext.reservations[i].assignments)
                    after == Len(reservations[i].assignments)
                IN  /\ before = 1 => after = 1
                    /\ before <= 1 => after <= 1

\* the probe of the elastic IP in the invocation's record, and the probes of
\* node addresses
EIPProbes(t) == SelectSeq(calls[t], LAMBDA c : c.op = "ProbeEIP")
NodeProbes(t) == SelectSeq(calls[t], LAMBDA c : c.op = "Probe")
Is200(c) == c.ok /\ c.status = StatusOK
EIPUnhealthy(t) == Len(EIPProbes(t)) = 1 /\ ~Is200(EIPProbes(t)[1])
EIPHealthy(t) == Len(EIPProbes(t)) = 1 /\ Is200(EIPProbes(t)[1])
No200(t) == \A k \in 1..Len(NodeProbes(t)) : ~Is200(NodeProbes(t)[k])

\* ------------------------------------------------------------- recovery
\* reconcileNodes called again and again in a cluster where both ports are
\* known, cp2 answers its health check and cp1 does not, the elastic IP
\* answers when it is assigned to cp2 and to nothing else, and the API calls
\* succeed, except that an Assign may fail after the Unassign of the same
\* invocation
HealthyNode == "cp2"

AssignedToHealthyNode ==
    \E i \in 1..Len(reservations) :
        /\ eipTag \in reservations[i].tags
        /\ Len(reservations[i].assignments) = 1
        /\ reservations[i].assignments[1].device = InstanceTable(HealthyNode)

RecoveryInit ==
    /\ inProcess = FALSE
    /\ apiServerPort = 8443
    /\ nodeAPIServerPort \in {6443, 8443}
    /\ eipTag = EIPTag
    /\ reservations \in { l \in Listings :
                            \E r \in ipReservationByAllTags({EIPTag}, l) :
                                Len(r.assignments) <= 1 }
    /\ \E present \in BOOLEAN :
          /\ services = IF present THEN PreexistingServices ELSE {}
          /\ endpoints = IF present THEN PreexistingEndpoints ELSE {}
    /\ pc = [t \in Procs |-> "idle"]
    /\ loc = [t \in Procs |-> NoLocals]
    /\ calls = [t \in Procs |-> << >>]
    /\ ret = [t \in Procs |-> Nil]
    /\ pre = [t \in Procs |-> Start(t, "")]
    /\ started = 0

\* what the step's API call, if it made one, came back with in that cluster
Cooperates(t) ==
    /\ pc'[t] = "n397" =>
          pre'[t].nodes \in { << WorkerNode, CP1, CP2 >>, << CP2, CP1 >> }
    /\ Len(calls'[t]) > Len(calls[t]) =>
          LET c == calls'[t][Len(calls'[t])]
          IN  CASE c.op = "ProbeEIP" -> Is200(c) <=> AssignedToHealthyNode
                [] c.op = "Probe" -> Is200(c) <=> c.node = HealthyNode
                [] c.op = "Assign" -> c.ok \/ Made(t, "Unassign")
                [] OTHER -> c.ok

RecoveryNext ==
    \E t \in Procs :
        \/ (\A u \in Procs : Free(u)) /\ InvokeNodes(t) /\ UNCHANGED started
        \/ ReconcileNodes(t) /\ Cooperates(t)

\* the caller's loop invokes again, and an invocation runs to its return
RecoverySpec == RecoveryInit /\ [][RecoveryNext]_vars /\ WF_vars(RecoveryNext)

\* the addresses claim C3 expects to be probed, in its order: of the nodes
\* that carry the control-plane label, in input order, each node's addresses
\* in supplied order, without the Hostname ones, without those whose URL is
\* the elastic IP's own, and without those no request can be built for
CandidatesOfNode(name, port, eipURL) ==
    LET eligible == SelectSeq(NodeAddressTable(name), LAMBDA a :
                        /\ a.type # "Hostname"
                        /\ HealthCheckURL(a.address, port) # eipURL
                        /\ NewRequestOK(HealthCheckURL(a.address, port)))
    IN  [k \in 1..Len(eligible) |->
            [node |-> name, url |-> HealthCheckURL(eligible[k].address, port)]]

RECURSIVE Candidates(_, _, _)
Candidates(nodes, port, eipURL) ==
    IF nodes = << >> THEN << >>
    ELSE (IF controlPlaneLabel \in Head(nodes).labels
             THEN CandidatesOfNode(Head(nodes).name, port, eipURL)
             ELSE << >>)
         \o Candidates(Tail(nodes), port, eipURL)

\* the device the tagged reservation was assigned to last
LastDevice(res) ==
    LET ip == CHOOSE r \in ipReservationByAllTags({eipTag}, res) : TRUE
    IN  ip.assignments[Len(ip.assignments)].device

\* C3: after an unhealthy probe of the elastic IP, the addresses probed are
\* the first ones of the expected candidates, in that order and without a
\* gap; only the last probe can have returned 200; every instance lookup and
\* assignment is for the node of that 200; a search that ends without a
\* candidate has probed them all; and a call that succeeds has assigned the
\* elastic IP to the node of the first 200.
C3_FirstHealthyCandidate ==
    \A t \in Procs :
        NodesCall(t) =>
            LET probes == NodeProbes(t)
                n == Len(probes)
                expected == IF Len(EIPProbes(t)) = 1
                               THEN Candidates(pre[t].nodes, nodeAPIServerPort,
                                               EIPProbes(t)[1].url)
                               ELSE << >>
            IN  /\ n > 0 => EIPUnhealthy(t)
                /\ n <= Len(expected)
                /\ \A k \in 1..n : /\ probes[k].node = expected[k].node
                                   /\ probes[k].url = expected[k].url
                /\ \A k \in 1..(n - 1) : ~Is200(probes[k])
                /\ \A k \in Positions(t, "InstanceID") :
                      /\ n > 0 /\ Is200(probes[n])
                      /\ calls[t][k].node = probes[n].node
                /\ \A k \in Positions(t, "Assign") :
                      /\ n > 0 /\ Is200(probes[n])
                      /\ calls[t][k].node = InstanceTable(probes[n].node)
                /\ (Returned(t) /\ ret[t] = ErrNoCandidate) =>
                      n = Len(expected) /\ No200(t)
                /\ (Returned(t) /\ ret[t] = Nil /\ EIPUnhealthy(t)) =>
                      /\ n > 0 /\ Is200(probes[n])
                      /\ Succeeded(t, "Assign")
                      /\ LastDevice(reservations) = InstanceTable(probes[n].node)

\* a call that skipped a worker node, a Hostname address and the address
\* whose URL is the elastic IP's own, found 10.0.0.1 unhealthy and assigned
\* the elastic IP to cp2
C3_Witness ==
    \E t \in Procs :
        /\ NodesCall(t) /\ Returned(t) /\ ret[t] = Nil
        /\ pre[t].nodes = << WorkerNode, CP1, CP2 >>
        /\ apiServerPort = nodeAPIServerPort
        /\ Len(NodeProbes(t)) = 2
        /\ LastDevice(reservations) = "device-cp2"

\* C4: an invocation makes at most one Assign and one Unassign call; its
\* Assign call comes after exactly one successful Unassign of the resolved
\* reservation's assignment when it had one, and with no Unassign call when
\* it had none; an Unassign call comes after a probe that returned 200 and
\* after the instance lookup that succeeded.
C4_OneUnassignBeforeAssign ==
    \A t \in Procs :
        NodesCall(t) =>
            /\ Cardinality(Positions(t, "Assign")) <= 1
            /\ Cardinality(Positions(t, "Unassign")) <= 1
            /\ \A k \in Positions(t, "Assign") : \A ip \in ResolvedAtStart(t) :
                  IF Len(ip.assignments) = 0
                     THEN ~Made(t, "Unassign")
                     ELSE \E j \in Positions(t, "Unassign") :
                             /\ j < k
                             /\ calls[t][j].ok
                             /\ calls[t][j].id = ip.assignments[1].id
            /\ \A j \in Positions(t, "Unassign") :
                  \E i \in Positions(t, "Probe"), h \in Positions(t, "InstanceID") :
                     /\ i < h /\ h < j
                     /\ Is200(calls[t][i])
                     /\ calls[t][h].ok

\* a call that unassigned the reservation's assignment and assigned anew
C4_Witness ==
    \E t \in Procs :
        /\ NodesCall(t) /\ Returned(t)
        /\ Succeeded(t, "Unassign") /\ Succeeded(t, "Assign")

\* C5 as stated: whenever the probe of the elastic IP is unhealthy and no
\* probe of a node address returned 200, the call returns the exhaustion
\* error and has changed no assignment.
C5_Original ==
    \A t \in Procs :
        (NodesCall(t) /\ Returned(t) /\ EIPUnhealthy(t) /\ No200(t)) =>
            /\ ret[t] = ErrNoCandidate
            /\ ~\E op \in CloudMutations : Made(t, op)
            /\ reservations = pre[t].ext.reservations

\* C5 amended: the same, the exhaustion error only where the node-side port
\* is known and no NodeAddresses lookup failed; the assignments are unchanged
\* in every case.
C5_NoCandidateNoChange ==
    \A t \in Procs :
        (NodesCall(t) /\ Returned(t) /\ EIPUnhealthy(t) /\ No200(t)) =>
            /\ (nodeAPIServerPort # 0
                  /\ \A k \in Positions(t, "NodeAddresses") : calls[t][k].ok)
                  => ret[t] = ErrNoCandidate
            /\ ~\E op \in CloudMutations : Made(t, op)
            /\ reservations = pre[t].ext.reservations

\* a search over two control-plane nodes that found no healthy address
C5_Witness ==
    \E t \in Procs :
        /\ NodesCall(t) /\ Returned(t) /\ ret[t] = ErrNoCandidate
        /\ Len(NodeProbes(t)) = 2
        /\ \E i \in 1..Len(reservations) : Len(reservations[i].assignments) = 1
                                           /\ eipTag \in reservations[i].tags

\* C6: once the probe of the elastic IP has returned 200, the invocation has
\* listed and probed and done nothing else, and it is returning nil.
C6_HealthyNoReassign ==
    \A t \in Procs :
        (NodesCall(t) /\ EIPHealthy(t)) =>
            /\ Len(calls[t]) = 2
            /\ ~\E op \in NodeCalls \cup CloudMutations : Made(t, op)
            /\ pc[t] \in {"n343", "done"}
            /\ ret[t] = Nil
            /\ reservations = pre[t].ext.reservations

\* a call that returned after a 200 from the elastic IP, the node-side port
\* being known
C6_Witness ==
    \E t \in Procs :
        /\ NodesCall(t) /\ Returned(t) /\ EIPHealthy(t)
        /\ nodeAPIServerPort # 0

\* the invocation listed the reservations first, and the listing came
Listed(t) == calls[t] # << >> /\ calls[t][1].op = "List" /\ calls[t][1].ok
ListingFailed(t) == calls[t] # << >> /\ calls[t][1].op = "List" /\ ~calls[t][1].ok

\* the invocation has made one call, the listing, has changed nothing
\* outside itself, the ports included, and is returning err
OnlyListedAndReturning(t, err) ==
    /\ Len(calls[t]) = 1
    /\ pc[t] \in {"n343", "done"}
    /\ ret[t] = err
    /\ External = pre[t].ext

\* C7: a reconciler whose listing resolves to a reservation with two or more
\* assignments returns the multi-assignment error having made no other call
\* and no change: no probe, no Unassign or Assign, no write to the store, the
\* ports as they were.
C7_MultiAssignmentNoMutation ==
    \A t \in Procs :
        (Listed(t) /\ \E r \in ResolvedAtStart(t) : Len(r.assignments) >= 2)
            => OnlyListedAndReturning(t, ErrMulti)

\* reconcileNodes returned the multi-assignment error
C7_Witness ==
    \E t \in Procs : NodesCall(t) /\ Returned(t) /\ ret[t] = ErrMulti

\* reconcileServices returned the multi-assignment error
C7_WitnessServices ==
    \E t \in Procs : ServicesCall(t) /\ Returned(t) /\ ret[t] = ErrMulti

\* C8: a reconciler whose listing holds no reservation with the tag returns
\* nil having made no other call and no change; one whose listing failed
\* returns that error likewise; and with an empty tag it calls nothing and
\* changes nothing.
C8_NoMatchNoMutation ==
    \A t \in Procs :
        /\ (Listed(t) /\ ResolvedAtStart(t) = {}) => OnlyListedAndReturning(t, Nil)
        /\ ListingFailed(t) => OnlyListedAndReturning(t, ErrList)
        /\ (eipTag = "" /\ pre[t].kind # "") =>
              calls[t] = << >> /\ External = pre[t].ext

\* reconcileServices returned nil from a listing without the tag, the store
\* holding mirrored objects
C8_Witness ==
    \E t \in Procs :
        /\ ServicesCall(t) /\ Returned(t) /\ Listed(t)
        /\ ResolvedAtStart(t) = {} /\ eipTag # ""
        /\ services # {}

\* reconcileNodes returned nil from a listing without the tag
C8_WitnessNodes ==
    \E t \in Procs :
        /\ NodesCall(t) /\ Returned(t) /\ Listed(t)
        /\ ResolvedAtStart(t) = {} /\ eipTag # ""

\* C9: after reconcileServices matched default/kubernetes and returned nil,
\* from a store without mirrored objects: the store holds one mirrored
\* service, of the fixed name and namespace, of type LoadBalancer, with the
\* elastic IP as load-balancer address, with the upstream ports except that
\* the first one's port is the desired port, and with one ingress entry, the
\* elastic IP; and one mirrored endpoints object with the upstream subsets.
C9_MirrorCreated ==
    \A t \in Procs :
        ( /\ ServicesCall(t) /\ Returned(t) /\ ret[t] = Nil
          /\ Matching(pre[t].svcs) # {}
          /\ pre[t].ext.services = {} /\ pre[t].ext.endpoints = {} )
        =>  LET up == FirstMatch(pre[t].svcs).ports
                eip == (CHOOSE r \in ResolvedAtStart(t) : TRUE).address
            IN  /\ Cardinality(services) = 1
                /\ Cardinality(endpoints) = 1
                /\ \A s \in services :
                      /\ s.name = externalServiceName
                      /\ s.namespace = externalServiceNamespace
                      /\ s.type = "LoadBalancer"
                      /\ s.loadBalancerIP = eip
                      /\ Len(s.ports) = Len(up)
                      /\ s.ports[1].port = apiServerPort
                      /\ s.ports[1].targetPort = up[1].targetPort
                      /\ s.ports[1].name = up[1].name
                      /\ \A k \in 2..Len(up) : s.ports[k] = up[k]
                      /\ s.ingress = << [ip |-> eip] >>
                /\ \A e \in endpoints :
                      /\ e.name = externalServiceName
                      /\ e.namespace = externalServiceNamespace
                      /\ e.subsets = UpstreamSubsets

\* such a call, of an upstream service with two ports whose first port is
\* not the desired one
C9_Witness ==
    \E t \in Procs :
        /\ ServicesCall(t) /\ Returned(t) /\ ret[t] = Nil
        /\ Matching(pre[t].svcs) # {}
        /\ pre[t].ext.services = {} /\ pre[t].ext.endpoints = {}
        /\ Len(FirstMatch(pre[t].svcs).ports) = 2
        /\ FirstMatch(pre[t].svcs).ports[1].port # apiServerPort

\* C10: reconcileServices run on a store that holds the mirrored service
\* leaves its name, namespace, annotations, labels, type and cluster address
\* as they were; its load-balancer address and ports are those the call wrote
\* if its update succeeded, and as they were if not.
C10_UpdateKeepsOtherFields ==
    \A t \in Procs :
        (ServicesCall(t) /\ pre[t].ext.services # {}) =>
            /\ Cardinality(services) = 1
            /\ \A s \in services : \A p \in pre[t].ext.services :
                  /\ s.name = p.name
                  /\ s.namespace = p.namespace
                  /\ s.annotations = p.annotations
                  /\ s.labels = p.labels
                  /\ s.type = p.type
                  /\ s.clusterIP = p.clusterIP
                  /\ IF Succeeded(t, "UpdateService")
                        THEN /\ s.loadBalancerIP =
                                  (CHOOSE r \in ResolvedAtStart(t) : TRUE).address
                             /\ s.ports = [FirstMatch(pre[t].svcs).ports
                                              EXCEPT ![1].port = apiServerPort]
                        ELSE /\ s.loadBalancerIP = p.loadBalancerIP
                             /\ s.ports = p.ports

\* a call that updated a mirrored service carrying a label added out of band
\* and another address
C10_Witness ==
    \E t \in Procs :
        /\ ServicesCall(t) /\ Returned(t) /\ ret[t] = Nil
        /\ Succeeded(t, "UpdateService")
        /\ \E s \in services : \E p \in pre[t].ext.services :
              /\ s.labels = {"added-out-of-band"}
              /\ s.loadBalancerIP # p.loadBalancerIP
              /\ s.ports # p.ports

\* a reconcileServices invocation that found default/kubernetes with a port
\* and is past lines 515-519
PastPortLines(t) ==
    /\ ServicesCall(t)
    /\ Matching(pre[t].svcs) # {}
    /\ Len(FirstMatch(pre[t].svcs).ports) >= 1
    /\ pc[t] \notin {"s477", "s515", "s517", "s518"}

\* C11: in every step, a desired port that is not 0 stays what it is; and
\* after it, in every reconcileServices invocation that is past lines
\* 515-519, the node-side port is the target port of the first upstream port
\* and the desired port is the one it was invoked with, or that target port
\* if it was invoked with 0.
C11_PortsTrackedNeverOverwritten ==
    [][ /\ apiServerPort # 0 => apiServerPort' = apiServerPort
        /\ \A t \in Procs :
              PastPortLines(t)' =>
                 LET target == FirstMatch(pre'[t].svcs).ports[1].targetPort
                     before == pre'[t].ext.apiServerPort
                 IN  /\ nodeAPIServerPort' = target
                     /\ apiServerPort' = IF before = 0 THEN target ELSE before
      ]_vars

\* a reconcileServices call that returned nil with the desired port adopted
\* by an earlier call and the upstream target port another one
C11_Witness ==
    \E t \in Procs :
        /\ PastPortLines(t) /\ Returned(t) /\ ret[t] = Nil
        /\ pre[t].ext.apiServerPort = 6443
        /\ nodeAPIServerPort = 8443
        /\ apiServerPort = 6443

\* the invocation follows one of the same reconciler that returned nil
SecondInARow(t) == pre[t].kind # "" /\ pre[t].last.kind = pre[t].kind

\* C12: a reconcileServices call that returned nil after one that returned
\* nil, with the same services and mode, and a reconcileNodes call that
\* returned nil on a 200 from the elastic IP after one that returned nil,
\* leave the reservations, the mirrored service with its status, the mirrored
\* endpoints and the ports as the call before left them.
C12_SecondCallChangesNothing ==
    \A t \in Procs :
        (SecondInARow(t) /\ Returned(t) /\ ret[t] = Nil) =>
            /\ (ServicesCall(t) /\ pre[t].svcs = pre[t].last.svcs
                                /\ pre[t].mode = pre[t].last.mode)
                  => External = pre[t].ext
            /\ (NodesCall(t) /\ (EIPHealthy(t) \/ ~Made(t, "ProbeEIP")))
                  => External = pre[t].ext

\* a second reconcileServices call in a row that went through the update
\* path to its end
C12_Witness ==
    \E t \in Procs :
        /\ SecondInARow(t) /\ ServicesCall(t) /\ Returned(t) /\ ret[t] = Nil
        /\ pre[t].svcs = pre[t].last.svcs /\ Matching(pre[t].svcs) # {}
        /\ Succeeded(t, "UpdateEndpoints") /\ Succeeded(t, "UpdateService")
        /\ Succeeded(t, "UpdateStatus")

\* a second reconcileNodes call in a row, after one that reassigned
C12_WitnessNodes ==
    \E t \in Procs :
        /\ SecondInARow(t) /\ NodesCall(t) /\ Returned(t) /\ ret[t] = Nil
        /\ EIPHealthy(t)
        /\ \E i \in 1..Len(reservations) :
              /\ eipTag \in reservations[i].tags
              /\ Len(reservations[i].assignments) = 1
              /\ reservations[i].assignments[1].device = "device-cp2"

\* the reservation the invocation's listing resolved to has at most one
\* assignment, and the services it was given hold no default/kubernetes
NoUpstreamService(t) ==
    /\ ServicesCall(t) /\ Listed(t)
    /\ \E r \in ResolvedAtStart(t) : Len(r.assignments) <= 1
    /\ Matching(pre[t].svcs) = {}

\* C13: a reconcileServices call that was given no default/kubernetes
\* service has returned the not-found error in mode ModeSync and nil in any
\* other mode, having called nothing after the listing and changed neither
\* the store nor the ports.
C13_NoUpstreamService ==
    \A t \in Procs :
        NoUpstreamService(t) =>
            /\ Returned(t)
            /\ pre[t].mode = ModeSync => ret[t] = ErrNotFound
            /\ pre[t].mode # ModeSync => ret[t] = Nil
            /\ Len(calls[t]) = 1
            /\ External = pre[t].ext

\* such a call in mode ModeSync, on a store that holds the mirrored objects
C13_Witness ==
    \E t \in Procs :
        /\ NoUpstreamService(t) /\ pre[t].mode = ModeSync
        /\ ret[t] = ErrNotFound
        /\ Len(pre[t].svcs) = 2
        /\ services # {} /\ nodeAPIServerPort # 0

\* such a call in another mode
C13_WitnessAdd ==
    \E t \in Procs :
        /\ NoUpstreamService(t) /\ pre[t].mode = ModeAdd
        /\ ret[t] = Nil
        /\ Len(pre[t].svcs) = 2

\* the configuration errors
ConfigErrors == {ErrNodeTag, ErrSvcTag, ErrPort, ErrNodePort}

\* C14 as stated: an invocation that ended with a configuration error has
\* made no API call.
C14_Original ==
    \A t \in Procs : ret[t] \in ConfigErrors => calls[t] = << >>

\* C14 amended: an invocation with an empty tag, and a reconcileNodes
\* invocation with the desired port unset, make no API call and end with
\* that error; a reconcileNodes invocation with the node-side port unknown
\* makes no call but the listing and the probe of the elastic IP, and one
\* that ended with that error has made exactly these two; none of them
\* changes anything.
C14_ConfigErrorsBeforeCalls ==
    \A t \in Procs :
        pre[t].kind # "" =>
            /\ ret[t] \in ConfigErrors \ {ErrNodePort} =>
                  calls[t] = << >> /\ External = pre[t].ext
            /\ eipTag = "" => calls[t] = << >>
            /\ (NodesCall(t) /\ pre[t].ext.apiServerPort = 0) => calls[t] = << >>
            /\ ret[t] = ErrNodePort =>
                  /\ Len(calls[t]) = 2
                  /\ calls[t][1].op = "List" /\ calls[t][2].op = "ProbeEIP"
                  /\ External = pre[t].ext
            /\ (NodesCall(t) /\ pre[t].ext.nodeAPIServerPort = 0) =>
                  \A k \in 1..Len(calls[t]) : calls[t][k].op \in {"List", "ProbeEIP"}

\* reconcileNodes returned the error of line 398 with control-plane nodes
\* at hand
C14_Witness ==
    \E t \in Procs :
        /\ NodesCall(t) /\ Returned(t) /\ ret[t] = ErrNodePort
        /\ pre[t].nodes = << CP2, CP1 >>

\* C16: when reconcileNodes has returned, it holds no response of a probe
\* with the body not closed.
C16_BodiesReleased ==
    \A t \in Procs : (NodesCall(t) /\ Returned(t)) => loc[t].open = << >>

\* C15: no invocation ends in a panic.
C15_NeverPanics ==
    \A t \in Procs : pc[t] # "panic"

\* C17: after a reconcileServices call that matched default/kubernetes and
\* returned nil, the store holds the mirrored service and it carries the
\* annotation metallb.universe.tf/address-pool with the disabling value.
C17_AlwaysAnnotated ==
    \A t \in Procs :
        (ServicesCall(t) /\ Returned(t) /\ ret[t] = Nil /\ Matching(pre[t].svcs) # {})
        =>  /\ services # {}
            /\ \A s \in services :
                  /\ metallbAnnotation \in DOMAIN s.annotations
                  /\ s.annotations[metallbAnnotation] = metallbDisabledtag

\* the lookups and mutations of reassign, and the error each one ends the
\* invocation with
ReassignSteps == {"NodeAddresses", "InstanceID", "Unassign", "Assign"}
ErrorOf(op) ==
    CASE op = "NodeAddresses" -> ErrNodeAddresses
      [] op = "InstanceID" -> ErrInstanceID
      [] op = "Unassign" -> ErrUnassign
      [] op = "Assign" -> ErrAssign

\* C18: a lookup or mutation of reassign that failed is the invocation's last
\* call, and the invocation is returning its error; no node's addresses are
\* looked up twice, and InstanceID, Unassign and Assign are called at most
\* once.
C18_ErrorAborts ==
    \A t \in Procs :
        NodesCall(t) =>
            /\ \A k \in 1..Len(calls[t]) :
                  (calls[t][k].op \in ReassignSteps /\ ~calls[t][k].ok) =>
                      /\ k = Len(calls[t])
                      /\ pc[t] \in {"n343", "done"}
                      /\ ret[t] = ErrorOf(calls[t][k].op)
            /\ \A j, k \in Positions(t, "NodeAddresses") :
                  calls[t][j].node = calls[t][k].node => j = k
            /\ \A op \in ReassignSteps \ {"NodeAddresses"} :
                  Cardinality(Positions(t, op)) <= 1

\* a search that ended on the NodeAddresses error of the second node, after
\* probing the first one
C18_Witness ==
    \E t \in Procs :
        /\ NodesCall(t) /\ Returned(t) /\ ret[t] = ErrNodeAddresses
        /\ Cardinality(Positions(t, "NodeAddresses")) = 2
        /\ Made(t, "Probe")

\* a call that ended on the error of Unassign
C18_WitnessUnassign ==
    \E t \in Procs :
        /\ NodesCall(t) /\ Returned(t) /\ ret[t] = ErrUnassign
        /\ ~Made(t, "Assign")

\* the tagged reservation had no assignment when the invocation started
StartedUnassigned(t) ==
    \E r \in ResolvedAtStart(t) : Len(r.assignments) = 0

\* an Assign failed after the Unassign succeeded, and the reservation is
\* left with no assignment
PartialMutation ==
    \E t \in Procs :
        /\ NodesCall(t) /\ Returned(t) /\ ret[t] = ErrAssign
        /\ Succeeded(t, "Unassign")
        /\ \E r \in ipReservationByAllTags({eipTag}, reservations) :
              Len(r.assignments) = 0

\* C19: in that cluster, a reconcileNodes pass that starts from a
\* reservation without assignment probes, searches, calls Assign and no
\* Unassign, and returns nil with the elastic IP on the healthy node; and
\* whenever an Assign has failed after its Unassign, the elastic IP is
\* eventually assigned to the healthy node.
C19_RecoversFromPartialMutation ==
    /\ [](\A t \in Procs :
            (NodesCall(t) /\ Returned(t) /\ StartedUnassigned(t)) =>
                /\ ret[t] = Nil
                /\ Made(t, "Probe")
                /\ Succeeded(t, "Assign")
                /\ ~Made(t, "Unassign")
                /\ AssignedToHealthyNode)
    /\ (PartialMutation ~> AssignedToHealthyNode)

\* the pass after the partial mutation has assigned the elastic IP anew
C19_Witness ==
    \E t \in Procs :
        /\ NodesCall(t) /\ Returned(t) /\ StartedUnassigned(t)
        /\ Succeeded(t, "Assign") /\ ~Made(t, "Unassign")
        /\ AssignedToHealthyNode

\* the partial mutation itself
C19_WitnessPartial == PartialMutation

\* the invocation was invoked while another goroutine was inside
\* reconcileServices
Overlapping(t) ==
    /\ ServicesCall(t)
    /\ \E u \in pre[t].busy : pre[u].kind = "services"

\* C20: an invocation of reconcileServices that was invoked while another
\* one was running is not turned away: once past its first line it has
\* listed the reservations like any other. And of two invocations that both
\* called Create for the mirrored endpoints, or for the mirrored service, at
\* most one succeeded.
C20_ServicesNotGuarded ==
    /\ \A t \in Procs :
          (Overlapping(t) /\ pc[t] # "s477") =>
              calls[t] # << >> /\ calls[t][1].op = "List"
    /\ \A t \in Procs : \A u \in Procs \ {t} :
          \A op \in {"CreateEndpoints", "CreateService"} :
              ~(Succeeded(t, op) /\ Succeeded(u, op))

\* two overlapping invocations have both found the mirrored endpoints
\* absent, which they still are, and both are about to create them
C20_Witness ==
    \E t \in Procs : \E u \in Procs \ {t} :
        /\ Overlapping(t) /\ ServicesCall(u)
        /\ pc[t] = "s552" /\ pc[u] = "s552"
        /\ ~loc[t].epExisted /\ ~loc[u].epExisted
        /\ endpoints = {}

\* two overlapping invocations given different upstream ports have both
\* updated the mirrored service, one after the other
C20_WitnessOverwrite ==
    \E t \in Procs : \E u \in Procs \ {t} :
        /\ Overlapping(t) /\ ServicesCall(u) /\ pc[u] \in ServiceLines
        /\ Succeeded(t, "UpdateService") /\ Succeeded(u, "UpdateService")
        /\ loc[t].ports # loc[u].ports

\* of two overlapping invocations that both called Create for the mirrored
\* endpoints, one has failed on it
C20_WitnessCreateFails ==
    \E t \in Procs : \E u \in Procs \ {t} :
        /\ Overlapping(t) /\ ServicesCall(u)
        /\ pre[t].ext.endpoints = {} /\ pre[u].ext.endpoints = {}
        /\ Succeeded(u, "CreateEndpoints")
        /\ Made(t, "CreateEndpoints") /\ ret[t] = ErrCreateEndpoints

\* an invocation of reconcileNodes, of either build
AnyNodesCall(t) == pre[t].kind \in {"nodes", "packet.nodes"}
\* ... that is between its first line and the end of its deferred functions
NodesInProgress(t) == AnyNodesCall(t) /\ pc[t] \in NodeLines \cup PacketLines

\* C21: whenever no invocation of reconcileNodes is in progress the guard
\* m.inProcess is false, whatever the invocation before returned; so an
\* invocation issued when no other runs finds the guard false at its first
\* line, and one that has returned nil was not turned away by the guard: it
\* has listed the reservations.
C21_GuardNeverStaysSet ==
    /\ (\A t \in Procs : ~NodesInProgress(t)) => ~inProcess
    /\ \A t \in Procs :
          (AnyNodesCall(t) /\ pre[t].busy = {}) =>
              /\ pc[t] \in {"n333", "p73"} => ~inProcess
              /\ (Returned(t) /\ ret[t] = Nil) => Made(t, "List")

\* reconcileNodes has set the guard, the reassignment has failed on Assign
\* and the invocation has returned that error; the guard is false again
C21_Witness ==
    \E t \in Procs :
        /\ AnyNodesCall(t) /\ Returned(t)
        /\ ret[t] = ErrAssign /\ Made(t, "Assign")
        /\ ~inProcess

\* an invocation that follows a reconcileNodes that returned nil after a
\* reassignment has passed the guard and set it
C21_WitnessNext ==
    \E t \in Procs :
        /\ NodesCall(t) /\ pre[t].last.kind = "nodes"
        /\ pc[t] = "n345" /\ inProcess
        /\ \E i \in 1..Len(reservations) :
              /\ Len(reservations[i].assignments) = 1
              /\ reservations[i].assignments[1].device = "device-cp2"

\* the return paths of the metal build, each left with the guard false
C21_WitnessTagError == \E t \in Procs : NodesCall(t) /\ Returned(t) /\ ret[t] = ErrNodeTag /\ ~inProcess
C21_WitnessPortError == \E t \in Procs : NodesCall(t) /\ Returned(t) /\ ret[t] = ErrPort /\ ~inProcess
C21_WitnessListError == \E t \in Procs : NodesCall(t) /\ Returned(t) /\ ret[t] = ErrList /\ ~inProcess
C21_WitnessNotFound ==
    \E t \in Procs : NodesCall(t) /\ Returned(t) /\ ret[t] = Nil /\ ~inProcess
                     /\ Succeeded(t, "List") /\ ~Made(t, "ProbeEIP")
C21_WitnessMulti == \E t \in Procs : NodesCall(t) /\ Returned(t) /\ ret[t] = ErrMulti /\ ~inProcess
C21_WitnessHealthy ==
    \E t \in Procs : NodesCall(t) /\ Returned(t) /\ ret[t] = Nil /\ ~inProcess
                     /\ Made(t, "ProbeEIP") /\ ~Made(t, "NodeAddresses")
C21_WitnessReassigned ==
    \E t \in Procs : NodesCall(t) /\ Returned(t) /\ ret[t] = Nil /\ ~inProcess
                     /\ Succeeded(t, "Assign")
\* ... and of the packet build, the panic of line 122 among them
C21_WitnessPacket ==
    \E t \in Procs : pre[t].kind = "packet.nodes" /\ Returned(t)
                     /\ ret[t] = ErrAssign /\ ~inProcess
C21_WitnessPacketPanic ==
    \E t \in Procs : pre[t].kind = "packet.nodes" /\ pc[t] = "panic" /\ ~inProcess

\* the ports as the manager holds them
PortsOf(ext) == << ext.apiServerPort, ext.nodeAPIServerPort >>

\* C22: with the reconcilers called one at a time, an invocation of
\* reconcileServices has made no Unassign and no Assign call and the
\* reservations, their assignments with them, are what they were when it was
\* invoked, and so is the guard; an invocation of reconcileNodes has made no
\* call to the store, neither a write nor a read, the mirrored service and
\* endpoints and both ports are what they were when it was invoked, and the
\* ports are what it reads: its probe of the elastic IP goes to the desired
\* port and its probes of the nodes go to the node-side port.
C22_ReconcilersMutateDisjointState ==
    \A t \in Procs :
        /\ ServicesCall(t) =>
              /\ \A op \in CloudMutations : ~Made(t, op)
              /\ reservations = pre[t].ext.reservations
              /\ ~inProcess
        /\ NodesCall(t) =>
              /\ \A op \in StoreMutations \cup StoreReads : ~Made(t, op)
              /\ services = pre[t].ext.services
              /\ endpoints = pre[t].ext.endpoints
              /\ PortsOf(External) = PortsOf(pre[t].ext)
              /\ \A k \in Positions(t, "ProbeEIP") :
                    calls[t][k].url[4] = apiServerPort
              /\ \A k \in Positions(t, "Probe") :
                    calls[t][k].url[4] = nodeAPIServerPort

\* reconcileNodes has probed a node on the node-side port that an earlier
\* reconcileServices adopted, has moved the assignment and returned nil, in
\* front of a store that holds the mirrored objects
C22_Witness ==
    \E t \in Procs :
        /\ NodesCall(t) /\ Returned(t) /\ ret[t] = Nil
        /\ Made(t, "Probe") /\ Succeeded(t, "Unassign") /\ Succeeded(t, "Assign")
        /\ nodeAPIServerPort # 0
        /\ services # {} /\ endpoints # {}
        /\ reservations # pre[t].ext.reservations

\* reconcileServices has written the endpoints, the service and its status
\* and both ports, for a reservation that has an assignment
C22_WitnessServices ==
    \E t \in Procs :
        /\ ServicesCall(t) /\ Returned(t) /\ ret[t] = Nil
        /\ Succeeded(t, "UpdateStatus")
        /\ PortsOf(External) # PortsOf(pre[t].ext)
        /\ pre[t].ext.apiServerPort = 0
        /\ << services, endpoints >> # << pre[t].ext.services, pre[t].ext.endpoints >>
        /\ \E i \in 1..Len(reservations) : Len(reservations[i].assignments) = 1

====
